---- MODULE Spec2Model ----
(***************************************************************************)
(* The batch CV scoring pipeline of cv_analyzer.py (class CVAnalyzer):     *)
(* the upload cache and its file, the validate-then-retry scorer, the      *)
(* per-file boundary process_cv, the batch loop, the report ordering and   *)
(* the optional cleanup.                                                   *)
(*                                                                         *)
(* Data representation                                                     *)
(*   file names     1..NumNames, the numeric order being the order of      *)
(*                  sorted(files)                                          *)
(*   directory      a function from the names of its entries to their      *)
(*                  kind: the suffix of a regular file, or a directory     *)
(*   job.txt        Absent, or [len, ws]: the length of the text and the   *)
(*                  number of leading/trailing blanks strip() removes      *)
(*   remote handle  a positive number, 0 is Python's None                  *)
(*   JSON value     score   [type, val]   type of the parsed value         *)
(*                  summary [type, len, ws]  length and the number of      *)
(*                          leading/trailing blanks strip() removes        *)
(*                  tags    [type, elems]  elems a sequence of tags, the   *)
(*                          tag NonStr standing for a non-string element   *)
(*   reply text     a sequence of tokens: "{" and "}" the brace            *)
(*                  characters, "F" the brace-free member list of the      *)
(*                  reply's payload, "p" a brace-free run of prose         *)
(***************************************************************************)
EXTENDS Integers, Sequences, FiniteSets, TLC

\* ------------------------------------------------------------------ bounds
NumNames == 2
MaxRuns == 2
MaxProse == 2
MaxRecs == 4
MaxOver == 6

\* ------------------------------------------------------- program constants
max_retries == 2
MinScore == 1
MaxScore == 100
MinSummary == 400
MinTags == 3
FallbackScore == 50
MinFileSize == 100
MaxFileSize == 512 * 1024 * 1024
MinJobLen == 100
FallbackFixedLen == 362
ErrorWrapLen == 9
UploadErrLen == 31
ExcErrLen == 49
FileNameLen == 8

None == 0
Names == 1..NumNames
NonStr == "<non-string>"
FallbackTags == <<"manual_review_needed", "analysis_incomplete", "requires_human_assessment">>
EmptyMap == [n \in {} |-> None]

\* ------------------------------------------------------------ JSON values
IntV(v) == [type |-> "int", val |-> v]
BoolV(b) == [type |-> "bool", val |-> IF b THEN 1 ELSE 0]
FloatV(v) == [type |-> "float", val |-> v]
AbsentScore == [type |-> "absent", val |-> 0]
StrV(len, ws) == [type |-> "str", len |-> len, ws |-> ws]
AbsentSummary == [type |-> "absent", len |-> 0, ws |-> 0]
ListV(elems) == [type |-> "list", elems |-> elems]
AbsentTags == [type |-> "absent", elems |-> <<>>]
Payload(score, summary, tags) == [score |-> score, summary |-> summary, tags |-> tags]

\* isinstance(x, int): Python's bool is a subclass of int
IsInstanceInt(v) == v.type \in {"int", "bool"}
IsInstanceStr(v) == v.type = "str"
IsInstanceList(v) == v.type = "list"
\* len(s.strip())
StripLen(s) == s.len - s.ws

\* ----------------------------------------------------------- reply texts
Find(text, ch) ==
    IF \E k \in 1..Len(text) : text[k] = ch
    THEN (CHOOSE k \in 1..Len(text) : text[k] = ch /\ \A j \in 1..(k-1) : text[j] # ch) - 1
    ELSE -1
\* mutant of RFind: the first occurrence, str.find
RFindFirst(text, ch) == Find(text, ch)
RFind(text, ch) ==
    IF \E k \in 1..Len(text) : text[k] = ch
    THEN (CHOOSE k \in 1..Len(text) : text[k] = ch /\ \A j \in (k+1)..Len(text) : text[j] # ch) - 1
    ELSE -1
\* text[a:b] for 0 <= a, 0 <= b
Slice(text, a, b) ==
    LET hi == IF b > Len(text) THEN Len(text) ELSE b
    IN IF a >= hi THEN <<>> ELSE SubSeq(text, a + 1, hi)

Ok(result) == [ok |-> TRUE, result |-> result, err |-> ""]
Raise(msg) == [ok |-> FALSE, result |-> Payload(AbsentScore, AbsentSummary, AbsentTags), err |-> msg]

\* json.loads on the extracted substring: an object with the payload's
\* members, an empty object, or a JSONDecodeError
JsonLoads(s, payload) ==
    IF s = <<"{", "F", "}">> THEN Ok(payload)
    ELSE IF s = <<"{", "}">> THEN Ok(Payload(AbsentScore, AbsentSummary, AbsentTags))
    ELSE Raise("JSONDecodeError")

ScoreInRange(v) == MinScore <= v /\ v <= MaxScore

SummaryTooShort(s) == StripLen(s) < MinSummary

CheckFields(result) ==
    IF ~IsInstanceInt(result.score) THEN Raise("Score must be an integer")
    ELSE IF ~ScoreInRange(result.score.val) THEN Raise("Score must be between 1-100")
    ELSE IF ~IsInstanceStr(result.summary) THEN Raise("Summary must be a string")
    ELSE IF SummaryTooShort(result.summary) THEN Raise("Summary must be at least 400 characters")
    ELSE IF ~IsInstanceList(result.tags) THEN Raise("Tags must be a list")
    ELSE IF Len(result.tags.elems) < MinTags THEN Raise("Must provide at least 3 tags")
    ELSE Ok(result)

\* err is the message of the ValueError raised inside the try; line 173
\* raises it again as a ValueError with a prefix
validate_json_response(reply) ==
    LET start_idx == Find(reply.text, "{")
        end_idx == RFind(reply.text, "}") + 1
    IN IF start_idx = -1 \/ end_idx = -1 THEN Raise("No JSON found in response")
       ELSE LET parsed == JsonLoads(Slice(reply.text, start_idx, end_idx), reply.payload)
            IN IF parsed.ok THEN CheckFields(parsed.result) ELSE parsed

\* ------------------------------------------------------- fallback record
NoError == [kind |-> "none", len |-> 0]
UploadError == [kind |-> "Failed to upload file to OpenAI", len |-> UploadErrLen]
\* str(e) of an exception the scorer or process_cv catches
ExcError == [kind |-> "str(e)", len |-> ExcErrLen]
NameLen(filename) == FileNameLen

create_fallback_response(filename, error_msg) ==
    Payload(IntV(FallbackScore),
            StrV(FallbackFixedLen + NameLen(filename)
                   + (IF error_msg.kind # "none" THEN ErrorWrapLen + error_msg.len ELSE 0), 0),
            ListV(FallbackTags))

\* ', '.join(elems): a TypeError unless every element is a string
JoinRaises(elems) == \E k \in 1..Len(elems) : elems[k] = NonStr
Join(elems) == [sep |-> ", ", parts |-> elems]
Take(s, n) == IF Len(s) <= n THEN s ELSE SubSeq(s, 1, n)

\* ------------------------------------------------------------- the scorer
NoPayload == Payload(AbsentScore, AbsentSummary, AbsentTags)
NoAnalysis == [state |-> "none", scorer |-> "NONE", result |-> NoPayload, exc |-> "none"]
Return(scorer, result) == [state |-> "returned", scorer |-> scorer, result |-> result, exc |-> "none"]
Retry == [state |-> "retry", scorer |-> "NONE", result |-> NoPayload, exc |-> "none"]
Escapes(exc) == [state |-> "raised", scorer |-> "NONE", result |-> NoPayload, exc |-> exc]
ErrorOf(exc) == ExcError

\* the try body of one attempt (lines 181-231): the exception it raises, or
\* the validated result
TryBody(out) ==
    IF out.fault THEN [exc |-> "APIError", result |-> NoPayload]
    ELSE IF out.reply.text = <<>> THEN [exc |-> "ValueError", result |-> NoPayload]
    ELSE LET v == validate_json_response(out.reply)
         IN IF ~v.ok THEN [exc |-> "ValueError", result |-> NoPayload]
            ELSE IF JoinRaises(Take(v.result.tags.elems, 3))
                 THEN [exc |-> "TypeError", result |-> NoPayload]
                 ELSE [exc |-> "none", result |-> v.result]

\* except ValueError (line 233), except Exception (line 244)
IsValueError(exc) == exc = "ValueError"
\* mutant of ScorerCatches: the handler of line 244 is missing
ScorerCatchesValueErrorOnly(exc) == exc = "ValueError"
ScorerCatches(exc) == exc \in {"ValueError", "TypeError", "APIError"}

\* one iteration of the retry loop, attempt counted from 0
analyze_attempt(attempt, out, filename) ==
    LET t == TryBody(out)
    IN IF t.exc = "none" THEN Return("VALID", t.result)
       ELSE IF IsValueError(t.exc)
            THEN IF attempt = max_retries - 1
                 THEN Return("FALLBACK", create_fallback_response(filename, NoError))
                 ELSE Retry
       ELSE IF ScorerCatches(t.exc)
            THEN Return("FALLBACK", create_fallback_response(filename, ErrorOf(t.exc)))
       ELSE Escapes(t.exc)

\* ------------------------------------------------------------- process_cv
NoRecord == [filename |-> 0, score |-> AbsentScore, summary |-> AbsentSummary,
             tags |-> Join(<<>>), status |-> "none", file_id |-> None]
ErrorRecord(filename, error_msg) ==
    LET fallback == create_fallback_response(filename, error_msg)
    IN [filename |-> filename, score |-> fallback.score, summary |-> fallback.summary,
        tags |-> Join(fallback.tags.elems), status |-> "error", file_id |-> None]
SuccessRecord(filename, result, fid) ==
    [filename |-> filename, score |-> result.score, summary |-> result.summary,
     tags |-> Join(result.tags.elems), status |-> "success", file_id |-> fid]

\* if not file_id (line 344)
\* mutant of NoHandle: the test is missing
NoHandleIgnored(fid) == FALSE
NoHandle(fid) == fid = None

\* except Exception (line 359)
\* mutant of BoundaryCatches: process_cv has no handler
BoundaryCatchesNothing(exc) == FALSE
BoundaryCatches(exc) == exc \in {"ValueError", "TypeError", "APIError"}

\* the try block after the upload (lines 344-357) and the except branch:
\* what process_cv hands to the batch loop
process_cv_result(filename, fid, an) ==
    LET exc == IF NoHandle(fid) THEN "ValueError"
               ELSE IF an.state = "raised" THEN an.exc
               ELSE IF JoinRaises(an.result.tags.elems) THEN "TypeError"
               ELSE "none"
    IN IF exc = "none" THEN [raised |-> FALSE, rec |-> SuccessRecord(filename, an.result, fid)]
       ELSE IF BoundaryCatches(exc)
            THEN [raised |-> FALSE,
                  rec |-> ErrorRecord(filename, IF NoHandle(fid) THEN UploadError ELSE ErrorOf(exc))]
       ELSE [raised |-> TRUE, rec |-> NoRecord]

\* ---------------------------------------------------------- report order
Key(r) == r.score.val
\* mutant of InsertDesc: x goes before the elements of equal key
InsertBeforeEqual(s, x) ==
    LET before == {k \in 1..Len(s) : Key(s[k]) > Key(x)}
        n == Cardinality(before)
    IN SubSeq(s, 1, n) \o <<x>> \o SubSeq(s, n + 1, Len(s))
\* s is sorted; x goes behind every element whose key is not smaller
InsertDesc(s, x) ==
    LET before == {k \in 1..Len(s) : Key(s[k]) >= Key(x)}
        n == Cardinality(before)
    IN SubSeq(s, 1, n) \o <<x>> \o SubSeq(s, n + 1, Len(s))
RECURSIVE SortDesc(_)
\* list.sort(key=score, reverse=True): stable
SortDesc(s) ==
    IF s = <<>> THEN <<>>
    ELSE InsertDesc(SortDesc(SubSeq(s, 1, Len(s) - 1)), s[Len(s)])
IsSuccess(r) == r.status = "success"
IsError(r) == r.status = "error"
Successful(rs) == SortDesc(SelectSeq(rs, IsSuccess))
Failed(rs) == SelectSeq(rs, IsError)
AllResults(rs) == Successful(rs) \o Failed(rs)

\* ------------------------------------------------------------ cache file
NoFile == [state |-> "absent", map |-> EmptyMap]
Truncated == [state |-> "partial", map |-> EmptyMap]
Written(map) == [state |-> "json", map |-> map]
load_cache(file) == IF file.state = "json" THEN file.map ELSE EmptyMap

\* ------------------------------------------------------- the corpus scan
\* kinds of directory entry: regular files by suffix, and a sub-directory
\* whose name ends in .pdf
Suffixes == {".pdf", ".docx", ".PDF", ".Docx", ".txt", ".pdf.bak", ""}
DirPdf == "<dir>.pdf"
Kinds == Suffixes \cup {DirPdf}
is_file(kind) == kind \in Suffixes
\* file_path.suffix.lower()
SuffixLower(kind) ==
    IF kind \in {".pdf", ".PDF"} THEN ".pdf"
    ELSE IF kind \in {".docx", ".Docx"} THEN ".docx"
    ELSE IF kind = ".pdf.bak" THEN ".bak"
    ELSE IF kind = DirPdf THEN ".pdf"
    ELSE kind
supported_extensions == {".pdf", ".docx"}
Supported(kind) == SuffixLower(kind) \in supported_extensions
\* the loop over iterdir() (lines 327-330)
Eligible(dir) == {n \in DOMAIN dir : is_file(dir[n]) /\ Supported(dir[n])}

MaxFiles == 200
RECURSIVE Between(_, _, _)
\* the names of S from lo to hi in ascending order, by halving the range
Between(S, lo, hi) ==
    IF lo > hi THEN <<>>
    ELSE IF lo = hi THEN (IF lo \in S THEN <<lo>> ELSE <<>>)
    ELSE LET mid == (lo + hi) \div 2
         IN Between(S, lo, mid) \o Between(S, mid + 1, hi)
\* sorted(files)
Sorted(S) ==
    IF S = {} THEN <<>>
    ELSE Between(S, CHOOSE x \in S : \A y \in S : x <= y,
                    CHOOSE x \in S : \A y \in S : y <= x)
\* mutant of Cap: no limit
CapNone(files) == files
\* cv_files[:200] (lines 429-431)
Cap(files) == Take(files, MaxFiles)
\* get_cv_files, then the limit of run_analysis
get_cv_files(dir) == Cap(Sorted(Eligible(dir)))

\* ----------------------------------------------------------------- inputs
Object == <<"{", "F", "}">>
GoodSummary == StrV(MinSummary, 0)
ThreeTags == <<"python", "senior", "msc">>
Reply(text, payload) == [text |-> text, payload |-> payload]
EmptyReply == Reply(<<>>, NoPayload)
\* what the endpoint answers in the batch: nothing, a valid object inside
\* prose, a score out of range, tags that are not strings
BatchReplies ==
    { EmptyReply,
      Reply(<<"p", "{", "F", "}", "p">>, Payload(IntV(72), GoodSummary, ListV(ThreeTags))),
      Reply(Object, Payload(IntV(0), GoodSummary, ListV(ThreeTags))),
      Reply(Object, Payload(IntV(72), GoodSummary, ListV(<<NonStr, NonStr, NonStr>>))) }
Outcomes == {[fault |-> TRUE, reply |-> EmptyReply]}
            \cup {[fault |-> FALSE, reply |-> r] : r \in BatchReplies}
Sizes == {MinFileSize - 1, MinFileSize, MaxFileSize, MaxFileSize + 1}
Absent == -1
\* job.txt: absent, one character short, the minimum, two blanks too many
Text(len, ws) == [len |-> len, ws |-> ws]
NoJobFile == Text(Absent, 0)
JobTexts == {NoJobFile, Text(MinJobLen - 1, 0), Text(MinJobLen, 0), Text(MinJobLen + 1, 2)}
\* the uploads folder of a batch: .pdf files
Folders == UNION {[S -> {".pdf"}] : S \in SUBSET Names}
EmptyFolder == [n \in {} |-> ""]
NotAsked == "<not asked>"
Answers == {" Y ", "n"}
\* input(...).lower().strip()
LowerStrip(a) == IF a \in {"y", "Y", " y ", " Y "} THEN "y" ELSE a
\* mutant of Confirms: cleanup whatever the answer
ConfirmsAlways(a) == TRUE
\* cleanup == 'y' (line 500)
Confirms(a) == LowerStrip(a) = "y"

\* ------------------------------------------------------------------ state
VARIABLES
    job_file,    \* job.txt as the last run found it
    folder,      \* the uploads folder as the last run found it
    disk,        \* uploaded_files_cache.json
    uploads,     \* successful remote uploads per file name, which number the handles
    cleaned,     \* history: cleanup has been invoked
    deleted,     \* history: the handles whose remote deletion was requested, as far
                 \* as the running process or the cache file still holds them
    runs,        \* runs started
    exit,        \* how the last run ended: "0", "1", "killed"; "none" while running
    pc,          \* position of the running process, "off" between runs
    cache,       \* self.uploaded_files_cache
    cv_files,    \* the scan of this run
    i,           \* index of the file in process_cv
    file_id,     \* handle process_cv holds for file i
    file_size,   \* the local of upload_file_to_openai, 0 outside of it
    upCalls,     \* history: remote upload invocations for the file last entered
    attempts,    \* history: endpoint outcomes of the scorer call for that file
    analysis,    \* what the scorer call for that file came to
    results,     \* the batch loop's list of records
    report,      \* the rows this run wrote to its CSV file
    answer,      \* what the operator typed at the cleanup prompt
    j,           \* index of the cleanup loop
    requests,    \* history: the handles this cleanup asked the endpoint to delete
    response_text, \* the reply validate_json_response was last applied to
    validated      \* and what it came to

vars == <<job_file, folder, disk, uploads, cleaned, deleted, runs, exit, pc, cache, cv_files, i,
          file_id, file_size, upCalls, attempts, analysis, results, report, answer, j,
          requests, response_text, validated>>

\* what the operator keeps between runs
site == <<job_file, folder>>
durable == <<disk, uploads, cleaned>>
checked == <<response_text, validated>>

\* the memory of a process that is not running
NoProcess ==
    /\ cache = EmptyMap /\ cv_files = <<>> /\ i = 0 /\ file_id = None /\ upCalls = 0
    /\ attempts = <<>> /\ analysis = NoAnalysis /\ results = <<>> /\ report = <<>> /\ j = 0
    /\ file_size = 0 /\ answer = NotAsked /\ requests = <<>>

NoReply == [pre |-> <<>>, body |-> <<>>, suf |-> <<>>, payload |-> NoPayload]
NotValidated == [ok |-> FALSE, result |-> NoPayload, err |-> "<not validated>"]

Init ==
    /\ job_file = NoJobFile /\ folder = EmptyFolder
    /\ disk = NoFile /\ uploads = [n \in Names |-> 0] /\ cleaned = FALSE /\ deleted = {}
    /\ runs = 0 /\ exit = "none" /\ pc = "off"
    /\ NoProcess
    /\ response_text = NoReply /\ validated = NotValidated

\* the handles of a cache file
Held(file) == {file.map[n] : n \in DOMAIN file.map}

\* the process ends; a handle that neither it nor the cache file holds any
\* more can never come back, and its history is dropped
Ends(code) ==
    /\ pc' = "off" /\ exit' = code
    /\ deleted' = deleted \cap Held(disk)
    /\ cache' = EmptyMap /\ cv_files' = <<>> /\ i' = 0 /\ file_id' = None /\ upCalls' = 0
    /\ attempts' = <<>> /\ analysis' = NoAnalysis /\ results' = <<>> /\ report' = <<>> /\ j' = 0
    /\ file_size' = 0 /\ answer' = NotAsked /\ requests' = <<>>

\* ------------------------------------------------------------ run_analysis
\* mutant of JobFatal: the text is measured as it is read
JobFatalUnstripped(job) == job.len = Absent \/ job.len < MinJobLen
\* load_job_description: exit(1) when job.txt is absent or, stripped, too short
JobFatal(job) == job.len = Absent \/ job.len - job.ws < MinJobLen

\* a run from the command line up to the batch loop: __init__ (load_cache),
\* load_job_description, get_cv_files and the limit; the operator has left
\* one of jobs in job.txt and one of dirs in the uploads folder
Start(jobs, dirs) ==
    /\ pc = "off" /\ runs < MaxRuns
    /\ runs' = runs + 1
    /\ \E job \in jobs, dir \in dirs :
         /\ job_file' = job /\ folder' = dir
         /\ IF JobFatal(job) THEN Ends("1")
            ELSE LET files == get_cv_files(dir)
                 IN IF files = <<>> THEN Ends("0")
                    ELSE /\ pc' = "upload" /\ exit' = "none"
                         /\ cache' = load_cache(disk)
                         /\ cv_files' = files /\ i' = 1
                         /\ file_id' = None /\ upCalls' = 0 /\ attempts' = <<>>
                         /\ analysis' = NoAnalysis /\ results' = <<>> /\ report' = <<>> /\ j' = 0
                         /\ file_size' = 0 /\ answer' = NotAsked /\ requests' = <<>>
                         /\ deleted' = deleted
    /\ UNCHANGED <<durable, checked>>

StartRun == Start(JobTexts, Folders)

cur == cv_files[i]

\* process_cv returns (or raises) and the loop appends and moves on
Hand(filename, fid, an, up, atts) ==
    LET out == process_cv_result(filename, fid, an)
    IN IF out.raised THEN Ends("1")
       ELSE /\ results' = Append(results, out.rec)
            /\ i' = i + 1
            /\ pc' = IF i = Len(cv_files) THEN "report" ELSE "upload"
            /\ file_id' = None /\ upCalls' = up /\ attempts' = atts /\ analysis' = an
            /\ file_size' = 0
            /\ UNCHANGED <<deleted, exit, cache, cv_files, report, answer, j, requests>>

\* -------------------------------------------------- upload_file_to_openai
\* file_response.id: an identifier the endpoint has not returned before
NewHandle(filename, count) == (count[filename] + 1) * (NumNames + 1) + filename
\* mutant of InCache: the lookup of line 104 is missing
CacheNeverHit(file_key, c) == FALSE
InCache(file_key, c) == file_key \in DOMAIN c
SizeOk(size) == ~(size > MaxFileSize) /\ ~(size < MinFileSize)

\* lines 104-106: the cached handle
UploadCached ==
    /\ pc = "upload" /\ InCache(cur, cache)
    /\ file_id' = cache[cur] /\ pc' = "analyze"
    /\ upCalls' = 0 /\ attempts' = <<>> /\ analysis' = NoAnalysis
    /\ UNCHANGED <<site, durable, deleted, runs, exit, cache, cv_files, i, file_size, results,
                   report, answer, j, requests, checked>>

\* lines 111-116: a size out of bounds raises, None is returned
UploadRejected ==
    /\ pc = "upload" /\ ~InCache(cur, cache)
    /\ \E size \in Sizes : ~SizeOk(size)
    /\ Hand(cur, None, NoAnalysis, 0, <<>>)
    /\ UNCHANGED <<site, durable, runs, checked>>

\* lines 119-123 raise: None is returned
UploadFailed ==
    /\ pc = "upload" /\ ~InCache(cur, cache)
    /\ \E size \in Sizes : SizeOk(size)
    /\ Hand(cur, None, NoAnalysis, 1, <<>>)
    /\ UNCHANGED <<site, durable, runs, checked>>

\* lines 119-129: the endpoint returns a handle, the map takes it
UploadOk ==
    /\ pc = "upload" /\ ~InCache(cur, cache)
    /\ \E size \in Sizes : SizeOk(size) /\ file_size' = size
    /\ uploads' = [uploads EXCEPT ![cur] = @ + 1]
    /\ cache' = (cur :> NewHandle(cur, uploads)) @@ cache
    /\ file_id' = NewHandle(cur, uploads) /\ pc' = "up_open"
    /\ upCalls' = 1 /\ attempts' = <<>> /\ analysis' = NoAnalysis
    /\ UNCHANGED <<site, disk, cleaned, deleted, runs, exit, cv_files, i, results, report,
                   answer, j, requests, checked>>

\* -------------------------------------------------------------- save_cache
AfterSave(p) == IF p \in {"up_open", "up_dump"} THEN "analyze" ELSE "done"
\* open(cache_file, 'w') truncates the file, or fails with IOError
SaveOpen ==
    /\ pc \in {"up_open", "cl_open"}
    /\ \E ok \in BOOLEAN :
         IF ok THEN /\ disk' = Truncated
                    /\ pc' = IF pc = "up_open" THEN "up_dump" ELSE "cl_dump"
         ELSE /\ disk' = disk /\ pc' = AfterSave(pc)
    /\ file_size' = IF pc' \in {"up_dump", "cl_dump"} THEN file_size ELSE 0
    /\ UNCHANGED <<site, uploads, cleaned, deleted, runs, exit, cache, cv_files, i,
                   file_id, upCalls, attempts, analysis, results, report, answer, j,
                   requests, checked>>
\* json.dump writes the map, or fails with IOError on the way
SaveDump ==
    /\ pc \in {"up_dump", "cl_dump"}
    /\ \E ok \in BOOLEAN :
         disk' = IF ok THEN Written(cache) ELSE disk
    /\ pc' = AfterSave(pc) /\ file_size' = 0
    /\ UNCHANGED <<site, uploads, cleaned, deleted, runs, exit, cache, cv_files, i,
                   file_id, upCalls, attempts, analysis, results, report, answer, j,
                   requests, checked>>

\* -------------------------------------------------- analyze_cv_with_openai
\* one round trip to the endpoint, and the return to process_cv when the
\* scorer returns
Infer ==
    /\ pc = "analyze"
    /\ \E out \in Outcomes :
         LET an == analyze_attempt(Len(attempts), out, cur)
         IN IF an.state = "retry"
            THEN /\ attempts' = Append(attempts, out)
                 /\ UNCHANGED <<deleted, exit, pc, cache, cv_files, i, file_id, file_size,
                                upCalls, analysis, results, report, answer, j, requests>>
            ELSE Hand(cur, file_id, an, upCalls, Append(attempts, out))
    /\ UNCHANGED <<site, durable, runs, checked>>

\* ------------------------------------------------ report, cleanup, the end
\* lines 455-494: partition, sort, save_to_csv
MakeReport ==
    /\ pc = "report"
    /\ report' = AllResults(results)
    /\ pc' = IF Successful(results) # <<>> THEN "ask" ELSE "done"
    /\ upCalls' = 0 /\ attempts' = <<>> /\ analysis' = NoAnalysis
    /\ UNCHANGED <<site, durable, deleted, runs, exit, cache, cv_files, i, file_id, file_size,
                   results, answer, j, requests, checked>>

\* lines 498-501: the operator's answer
Ask ==
    /\ pc = "ask"
    /\ \E a \in Answers :
         /\ answer' = a
         /\ IF Confirms(a)
            THEN pc' = "cleanup" /\ j' = 1 /\ cleaned' = TRUE
            ELSE pc' = "done" /\ UNCHANGED <<j, cleaned>>
    /\ UNCHANGED <<site, disk, uploads, deleted, runs, exit, cache, cv_files, i,
                   file_id, file_size, upCalls, attempts, analysis, results, report,
                   requests, checked>>

\* result.get('file_id') and result['status'] == 'success' (line 396)
ToDelete(r) == r.file_id # None /\ r.status = "success"

\* lines 395-401: one record of the cleanup loop; the deletion succeeds or
\* raises, the exception is printed, and the loop goes on either way
DeleteNext ==
    /\ pc = "cleanup" /\ j <= Len(report)
    /\ j' = j + 1
    /\ IF ToDelete(report[j])
       THEN /\ requests' = Append(requests, report[j].file_id)
            /\ deleted' = deleted \cup {report[j].file_id}
       ELSE UNCHANGED <<requests, deleted>>
    /\ UNCHANGED <<site, disk, uploads, cleaned, runs, exit, pc, cache, cv_files, i,
                   file_id, file_size, upCalls, attempts, analysis, results, report,
                   answer, checked>>

\* line 404, then save_cache
ClearCache ==
    /\ pc = "cleanup" /\ j > Len(report)
    /\ cache' = EmptyMap /\ pc' = "cl_open"
    /\ UNCHANGED <<site, durable, deleted, runs, exit, cv_files, i, file_id, file_size,
                   upCalls, attempts, analysis, results, report, answer, j, requests, checked>>

\* run_analysis returns, main returns 0
Finish ==
    /\ pc = "done" /\ Ends("0")
    /\ UNCHANGED <<site, durable, runs, checked>>

\* the process is killed
Crash ==
    /\ pc # "off" /\ Ends("killed")
    /\ UNCHANGED <<site, durable, runs, checked>>

Next ==
    \/ StartRun \/ UploadCached \/ UploadRejected \/ UploadFailed \/ UploadOk
    \/ SaveOpen \/ SaveDump \/ Infer \/ MakeReport \/ Ask \/ DeleteNext \/ ClearCache
    \/ Finish \/ Crash

Spec == Init /\ [][Next]_vars

\* ------------------------------------------- validate_json_response alone
TestScores == {IntV(MinScore - 1), IntV(MinScore), IntV(MaxScore), IntV(MaxScore + 1),
               BoolV(TRUE), BoolV(FALSE), FloatV(FallbackScore), AbsentScore}
TestSummaries == {StrV(MinSummary - 1, 0), StrV(MinSummary, 0), StrV(MinSummary + 1, 2),
                  StrV(MinSummary + 2, 2), AbsentSummary}
TestTags == {ListV(<<"python", "senior">>), ListV(ThreeTags),
             ListV(<<NonStr, NonStr, NonStr>>), AbsentTags}
TestPayloads == {Payload(sc, su, tg) : sc \in TestScores, su \in TestSummaries, tg \in TestTags}
WrappedPayloads == {Payload(IntV(72), GoodSummary, ListV(ThreeTags)),
                    Payload(IntV(MaxScore + 1), GoodSummary, ListV(ThreeTags))}
\* prose around the object: runs of text and stray braces
Prose == UNION {[1..n -> {"p", "{", "}"}] : n \in 0..MaxProse}
Bodies == {Object, <<"{", "}">>, <<"{", "F">>, <<>>}
TestInputs ==
    {[pre |-> <<>>, body |-> b, suf |-> <<>>, payload |-> pl] : b \in Bodies, pl \in TestPayloads}
    \cup {[pre |-> a, body |-> Object, suf |-> z, payload |-> pl] :
             a \in Prose, z \in Prose, pl \in WrappedPayloads}
TextOf(in) == in.pre \o in.body \o in.suf

InitValidate ==
    /\ job_file = NoJobFile /\ folder = EmptyFolder
    /\ disk = NoFile /\ uploads = [n \in Names |-> 0] /\ cleaned = FALSE /\ deleted = {}
    /\ runs = 0 /\ exit = "none" /\ pc = "off"
    /\ NoProcess
    /\ response_text \in TestInputs /\ validated = NotValidated

Validate ==
    /\ validated = NotValidated
    /\ validated' = validate_json_response(Reply(TextOf(response_text), response_text.payload))
    /\ UNCHANGED <<site, durable, deleted, runs, exit, pc, cache, cv_files, i, file_id, file_size,
                   upCalls, attempts, analysis, results, report, answer, j, requests,
                   response_text>>

SpecValidate == InitValidate /\ [][Validate]_vars

\* --------------------------------------------------- the report order alone
TestKinds == {0, 55, 72, 90}
TestRecord(k, kind) ==
    IF kind = 0 THEN ErrorRecord(k, UploadError)
    ELSE SuccessRecord(k, Payload(IntV(kind), GoodSummary, ListV(ThreeTags)), k)
TestBatches ==
    UNION {{[k \in 1..n |-> TestRecord(k, f[k])] : f \in [1..n -> TestKinds]} : n \in 1..MaxRecs}

InitReport ==
    /\ job_file = Text(MinJobLen, 0) /\ folder = EmptyFolder
    /\ disk = NoFile /\ uploads = [n \in Names |-> 0] /\ cleaned = FALSE /\ deleted = {}
    /\ runs = 1 /\ exit = "none" /\ pc = "report"
    /\ file_size = 0 /\ answer = NotAsked /\ requests = <<>>
    /\ cache = EmptyMap /\ file_id = None /\ upCalls = 0
    /\ attempts = <<>> /\ analysis = NoAnalysis /\ report = <<>> /\ j = 0
    /\ results \in TestBatches
    /\ cv_files = [k \in 1..Len(results) |-> k] /\ i = Len(results) + 1
    /\ response_text = NoReply /\ validated = NotValidated

SpecReport == InitReport /\ [][MakeReport]_vars

\* ------------------------------------------- the start of a run alone
\* job.txt: missing, empty, around the minimum, with and without blanks
\* that strip() removes
TestJobs == {NoJobFile, Text(0, 0), Text(MinJobLen - 1, 0), Text(MinJobLen, 0),
             Text(MinJobLen, 1), Text(MinJobLen + 1, 1), Text(MinJobLen + 1, 2),
             Text(MinJobLen + 2, 2), Text(2 * MinJobLen, MinJobLen + 1)}
\* uploads folders of 0, 1, 2 entries and of about MaxFiles entries; the
\* entries are .pdf files but the first, of any kind, and the last
TestCounts == {0, 1, 2} \cup ((MaxFiles - 1)..(MaxFiles + MaxOver))
TestFolder(n, first, last) ==
    [k \in 1..n |-> IF k = 1 THEN first ELSE IF k = n THEN last ELSE ".pdf"]
TestFolders ==
    {TestFolder(n, first, last) : n \in TestCounts, first \in Kinds, last \in {".pdf", ".Docx", ".txt"}}

\* the last of the runs
InitStart ==
    /\ job_file = NoJobFile /\ folder = EmptyFolder
    /\ disk = NoFile /\ uploads = [n \in Names |-> 0] /\ cleaned = FALSE /\ deleted = {}
    /\ runs = MaxRuns - 1 /\ exit = "none" /\ pc = "off"
    /\ NoProcess
    /\ response_text = NoReply /\ validated = NotValidated

StartTests == Start(TestJobs, TestFolders)

SpecStart == InitStart /\ [][StartTests]_vars

\* ================================================================= claims
\* the record of the file last handled and its scorer call are both in view
Handed == pc \in {"upload", "report"} /\ results # <<>>
LastRecord == results[Len(results)]
LastFile == cv_files[Len(results)]
\* an endpoint outcome that is a reply passing validation
ValidReply(out) ==
    /\ ~out.fault /\ out.reply.text # <<>>
    /\ validate_json_response(out.reply).ok

\* C1: a record has status success only if the scorer ended in VALID; when
\* the scorer ended in FALLBACK the record is a failed one (status error).
C1_SuccessOnlyIfValid ==
    Handed =>
      /\ LastRecord.status = "success" => analysis.scorer = "VALID"
      /\ analysis.scorer = "FALLBACK" => LastRecord.status = "error"

\* C2: at most 2 inference calls per file; a reply failing validation is
\* retried; the first reply that validates is what the scorer returns, and
\* the fallback record is returned exactly when no attempt was valid.
C2_RetryThenFirstValid ==
    /\ Len(attempts) <= max_retries
    /\ pc = "analyze" => \A k \in DOMAIN attempts : ~ValidReply(attempts[k])
    /\ (Handed /\ analysis.state = "returned") =>
         /\ \A k \in 1..(Len(attempts) - 1) : ~ValidReply(attempts[k])
         /\ analysis.scorer = "FALLBACK" <=> \A k \in DOMAIN attempts : ~ValidReply(attempts[k])
         /\ ValidReply(attempts[Len(attempts)]) =>
              analysis.result = attempts[Len(attempts)].reply.payload

\* C4: the scorer never raises; a non-validation fault ends it at once with
\* the fallback record; the fallback record has score 50 and the three
\* fixed tags.
C4_ScorerNeverRaises ==
    /\ analysis.state # "raised"
    /\ pc = "analyze" => Len(attempts) < max_retries
    /\ (Handed /\ attempts # <<>>) => analysis.state = "returned"
    /\ \A k \in DOMAIN attempts :
         attempts[k].fault =>
           /\ k = Len(attempts) /\ pc # "analyze"
           /\ Handed => analysis.scorer = "FALLBACK"
    /\ analysis.scorer = "FALLBACK" =>
         /\ analysis.result.score = IntV(50)
         /\ analysis.result.tags = ListV(<<"manual_review_needed", "analysis_incomplete",
                                           "requires_human_assessment">>)
\* a fault on the second attempt, after a rejected reply, gave the fallback
C4_Witness ==
    /\ Handed /\ Len(attempts) = 2 /\ attempts[2].fault
    /\ analysis.state = "returned" /\ analysis.scorer = "FALLBACK"

\* the reply under test is the bare object, and it has been validated
BareObject ==
    /\ validated # NotValidated
    /\ response_text.pre = <<>> /\ response_text.suf = <<>> /\ response_text.body = Object
\* the shape the contract asks of a parsed reply
ShapeOk(p) ==
    /\ p.score.type = "int" /\ 1 <= p.score.val /\ p.score.val <= 100
    /\ p.summary.type = "str" /\ p.summary.len - p.summary.ws >= 400
    /\ p.tags.type = "list" /\ Len(p.tags.elems) >= 3

\* C3: a parsed reply is accepted if and only if score is an integer in
\* 1..100, summary a string of trimmed length >= 400 and tags a list of at
\* least 3 elements; every other reply raises and no result is returned.
C3_AcceptsExactlyTheShape ==
    BareObject =>
      /\ validated.ok <=> ShapeOk(response_text.payload)
      /\ validated.ok => validated.result = response_text.payload
      /\ ~validated.ok => validated.result = NoPayload /\ validated.err # ""

\* the reply under test is prose, one well-formed object, prose
Wrapped == validated # NotValidated /\ response_text.body = Object
BareOutcome == validate_json_response(Reply(Object, response_text.payload))
Has(text, ch) == \E k \in DOMAIN text : text[k] = ch

\* C5 as stated: whatever the prose before and after the object is, the
\* outcome is that of the bare object.
C5_AnyProse == Wrapped => validated = BareOutcome

\* C5 amended: when the prose before the object holds no '{' and the prose
\* after it holds no '}', the outcome is that of the bare object.
C5_ProseWithoutBraces ==
    (Wrapped /\ ~Has(response_text.pre, "{") /\ ~Has(response_text.suf, "}")) =>
       validated = BareOutcome
\* an accepted object with a '}' in the prose before it and a '{' after it
C5_Witness ==
    /\ Wrapped /\ validated.ok
    /\ Has(response_text.pre, "}") /\ Has(response_text.suf, "{")
    /\ ~Has(response_text.pre, "{") /\ ~Has(response_text.suf, "}")

\* the map a run would read from the cache file
OnDisk == IF disk.state = "json" THEN disk.map ELSE EmptyMap
\* h is a handle a successful remote upload of file n returned
Issued(n, h) == \E k \in 1..uploads[n] : h = k * (NumNames + 1) + n

\* C6 as stated, its conclusion: over runs without cleanup the remote upload
\* succeeds at most once per file name.
C6_UploadedOncePerName == ~cleaned => \A n \in Names : uploads[n] <= 1

\* C6 amended: a file name that is a key of the cache gets the cached handle
\* and no remote upload; a run starts with every entry the cache file holds;
\* so a name is uploaded at most once per run, and again in a later run only
\* if the cache that run loaded does not hold it.
C6_CachedNameNotUploaded ==
    /\ [](\A n \in Names : uploads[n] <= runs)
    /\ [][/\ (pc = "upload" /\ cur \in DOMAIN cache) =>
               /\ uploads' = uploads
               /\ pc' = "analyze" => (file_id' = cache[cur] /\ upCalls' = 0)
          /\ (pc = "off" /\ pc' = "upload") =>
               \A n \in DOMAIN OnDisk : n \in DOMAIN cache' /\ cache'[n] = OnDisk[n]
          /\ \A n \in Names : uploads'[n] # uploads[n] =>
               (pc = "upload" /\ n = cur /\ n \notin DOMAIN cache /\ uploads'[n] = uploads[n] + 1)
         ]_vars
\* a second run took the handle the first run had uploaded and persisted
C6_Witness ==
    /\ runs = 2 /\ pc = "analyze" /\ upCalls = 0
    /\ uploads[cur] = 1 /\ file_id = cache[cur] /\ Issued(cur, file_id)

\* C7: outside a save in progress the cache file holds the in-memory map;
\* every entry of the file is a handle a successful upload returned; while
\* a new upload is being persisted the earlier entries stay in the file, so
\* that a crash loses at most the upload in progress.
C7_DiskFollowsCache ==
    /\ pc \in {"upload", "analyze", "report", "ask", "cleanup", "done"} => OnDisk = cache
    /\ \A n \in DOMAIN disk.map : Issued(n, disk.map[n])
    /\ pc \in {"up_open", "up_dump"} =>
         \A n \in DOMAIN cache \ {cur} : n \in DOMAIN OnDisk /\ OnDisk[n] = cache[n]

\* C8: a failed upload on a cache miss returns no handle after at most one
\* remote call, leaves cache and cache file as they were, and process_cv
\* makes no inference call and records status error, a null handle and the
\* fallback payload.
C8_FailedUploadIsErrorRecord ==
    [][(pc = "upload" /\ Len(results') = Len(results) + 1) =>
         /\ cur \notin DOMAIN cache
         /\ cache' = cache /\ disk' = disk /\ uploads' = uploads
         /\ upCalls' <= 1 /\ attempts' = <<>> /\ analysis'.state = "none"
         /\ results'[Len(results')].filename = cur
         /\ results'[Len(results')].status = "error"
         /\ results'[Len(results')].file_id = None
         /\ results'[Len(results')].score = IntV(50)
         /\ results'[Len(results')].summary = create_fallback_response(cur, UploadError).summary
         /\ results'[Len(results')].tags = Join(FallbackTags)
      ]_vars
\* the remote upload of the second file failed after the first succeeded
C8_Witness ==
    /\ Handed /\ Len(results) = 2 /\ upCalls = 1 /\ attempts = <<>>
    /\ LastRecord.status = "error" /\ LastRecord.file_id = None
    /\ results[1].status = "success" /\ LastFile \notin DOMAIN cache

InLoop == pc \in {"upload", "up_open", "up_dump", "analyze"}
AfterLoop == pc \in {"report", "ask", "cleanup", "cl_open", "cl_dump", "done"}

\* C9: the batch loop makes exactly one record per scanned file, in scan
\* order, file k+1 starting only when file k has its record; no per-file
\* fault ends the loop or leaves process_cv; a record never changes.
C9_OneRecordPerFileInOrder ==
    /\ [](/\ InLoop => (Len(results) = i - 1 /\ i <= Len(cv_files))
          /\ AfterLoop => Len(results) = Len(cv_files)
          /\ \A k \in DOMAIN results :
               results[k].filename = cv_files[k] /\ results[k].status \in {"success", "error"})
    /\ [][/\ (InLoop /\ pc' = "off") => exit' = "killed"
          /\ pc' # "off" => \A k \in DOMAIN results :
                              k \in DOMAIN results' /\ results'[k] = results[k]
          /\ Len(results') <= Len(results) + 1
         ]_vars
\* two files, the first one's upload failed, the second one was scored
C9_Witness ==
    /\ pc = "report" /\ Len(cv_files) = 2 /\ Len(results) = 2
    /\ results[1].status = "error" /\ results[2].status = "success"

\* position of a report row in the scan
ScanIndex(r) == CHOOSE k \in DOMAIN results : results[k] = r
ReportMade == pc \in {"ask", "cleanup", "cl_open", "cl_dump", "done"}

\* C10: the report is a permutation of the batch's records: the success
\* records by non-increasing score, equal scores in scan order, then the
\* error records in scan order.
C10_ReportOrder ==
    ReportMade =>
      /\ Len(report) = Len(results)
      /\ \A k \in DOMAIN results : \E m \in DOMAIN report : report[m] = results[k]
      /\ \A m \in DOMAIN report : \E k \in DOMAIN results : results[k] = report[m]
      /\ \A a, b \in DOMAIN report :
           a < b =>
             /\ report[a].status = "error" =>
                  (report[b].status = "error" /\ ScanIndex(report[a]) < ScanIndex(report[b]))
             /\ (report[a].status = "success" /\ report[b].status = "success") =>
                  \/ report[a].score.val > report[b].score.val
                  \/ /\ report[a].score.val = report[b].score.val
                     /\ ScanIndex(report[a]) < ScanIndex(report[b])
\* successes scored 90, 55, 72 and one failure are written 90, 72, 55, failure
C10_Witness ==
    /\ ReportMade /\ Len(results) = 4
    /\ results[1].score.val = 90 /\ results[2].score.val = 55 /\ results[3].score.val = 72
    /\ \A k \in 1..3 : results[k].status = "success"
    /\ results[4].status = "error"
    /\ report = <<results[1], results[3], results[2], results[4]>>

\* the regular files of the folder whose extension is .pdf or .docx, in
\* whatever case it is written
CvNames == {n \in DOMAIN folder : folder[n] \in {".pdf", ".PDF", ".docx", ".Docx"}}
Scanned == {cv_files[k] : k \in DOMAIN cv_files}

\* C11: the batch takes the first min(n, 200) of the n eligible files in
\* the order of their names, and a folder of more than 200 does not fail
\* the run.
C11_FirstTwoHundredInOrder ==
    pc = "upload" =>
      /\ exit = "none"
      /\ Len(cv_files) = (IF Cardinality(CvNames) < 200 THEN Cardinality(CvNames) ELSE 200)
      /\ Scanned \subseteq CvNames
      /\ \A k \in 1..(Len(cv_files) - 1) : cv_files[k] < cv_files[k + 1]
      /\ \A n \in CvNames \ Scanned : \A m \in Scanned : m < n
\* 205 eligible files, an upper-case extension among them, next to a file
\* that is not a CV: the batch starts with 200
C11_Witness ==
    /\ pc = "upload" /\ Cardinality(CvNames) = 205 /\ Len(cv_files) = 200
    /\ folder[1] = ".txt" /\ folder[206] = ".Docx" /\ cv_files[1] = 2

\* the handles cleanup has to ask the endpoint to delete, in report order
Deletable(rows) ==
    LET del == SelectSeq(rows, LAMBDA r : r.status = "success" /\ r.file_id # None)
    IN [k \in 1..Len(del) |-> del[k].file_id]
Yes == {"y", "Y", " y ", " Y "}
CleanupDone == pc = "done" /\ answer \in Yes

\* C12: cleanup asks once for the deletion of the handle of every success
\* record, in the order of the report, whatever the deletions came to, and
\* when it has finished the cache is empty in memory and in the cache file.
C12_CleanupDeletesAndClears ==
    /\ pc = "cleanup" => requests = Deletable(SubSeq(report, 1, j - 1))
    /\ pc \in {"cl_open", "cl_dump"} => requests = Deletable(report)
    /\ CleanupDone =>
         /\ requests = Deletable(report)
         /\ cache = EmptyMap
         /\ OnDisk = EmptyMap

\* C13: deletions are requested and the cache is cleared only after the
\* operator answered y; without that answer, and in a run with no success
\* record, the cache and the cache file stay as the batch loop left them.
C13_CleanupOnlyOnYes ==
    /\ [](pc \in {"cleanup", "cl_open", "cl_dump"} => answer \in Yes)
    /\ [][/\ ((pc' # "off" /\ requests' # requests) \/ deleted' \ deleted # {}) =>
                (pc = "cleanup" /\ answer \in Yes)
          /\ (pc' # "off" /\ cache # EmptyMap /\ cache' = EmptyMap) => (pc = "cleanup" /\ answer \in Yes)
          /\ (AfterLoop /\ answer' \notin Yes) =>
                (disk' = disk /\ deleted' \subseteq deleted /\ (pc' # "off" => cache' = cache))
          /\ (AfterLoop /\ Successful(results) = <<>>) => (disk' = disk /\ answer' = NotAsked)
         ]_vars
\* the operator declined: the run is over with its uploads still cached
C13_Witness ==
    /\ pc = "done" /\ answer = "n" /\ requests = <<>>
    /\ cache # EmptyMap /\ OnDisk = cache /\ deleted = {}

\* the last run got as far as load_job_description
Started == pc # "off" \/ exit # "none"
\* the run was ended by exit(1)
Fatal == pc = "off" /\ exit = "1"

\* C14 as stated: a missing job description, or one of fewer than 100
\* characters, ends the process before anything is scanned; one of 100
\* characters or more lets the run go on.
C14_JobLengthAsRead ==
    Started =>
      IF job_file.len = Absent \/ job_file.len < 100
      THEN Fatal /\ cv_files = <<>> /\ results = <<>>
      ELSE ~Fatal

\* C14 amended: the length that counts is that of the text without its
\* leading and trailing blanks.
C14_JobLengthStripped ==
    Started =>
      IF job_file.len = Absent \/ job_file.len - job_file.ws < 100
      THEN Fatal /\ cv_files = <<>> /\ results = <<>>
      ELSE ~Fatal
\* a text of 102 characters, 100 without its blanks, and the batch began
C14_Witness ==
    /\ pc = "upload" /\ job_file.ws = 2 /\ job_file.len - job_file.ws = 100
    /\ cv_files # <<>>

\* a configuration fault: no job description, one that is too short, no CV
ConfigFault ==
    \/ job_file.len = Absent
    \/ job_file.len - job_file.ws < 100
    \/ CvNames = {}

\* C15: a run ended by a configuration fault has made no upload and no
\* inference call and exits non-zero; a run that went through its batch
\* exits with zero.
C15_ConfigFaultExitsNonZero ==
    (pc = "off" /\ exit \in {"0", "1"}) =>
      IF ConfigFault THEN exit = "1" ELSE exit = "0"

\* the AnalysisResult shape
AnalysisShape(p) ==
    /\ p.score.type = "int" /\ 1 <= p.score.val /\ p.score.val <= 100
    /\ p.summary.type = "str" /\ p.summary.len >= 400
    /\ p.tags.type = "list" /\ Len(p.tags.elems) >= 3

\* C16: whatever the scorer returns, the fallback record included, has an
\* integer score in 1..100, a summary of at least 400 characters and at
\* least 3 tags.
C16_ReturnedResultHasShape ==
    analysis.state = "returned" => AnalysisShape(analysis.result)

\* C17: a handle is obtained only for a file of more than 100 bytes and at
\* most 512 MiB.
C17_UploadedSizeInBounds ==
    pc \in {"up_open", "up_dump"} =>
      (file_size > 100 /\ file_size <= 512 * 1024 * 1024)

\* C18: an entry leaves the cache of a running process only if the
\* deletion of its handle has been requested.
C18_DroppedOnlyIfDeleted ==
    [][pc' # "off" =>
         \A n \in DOMAIN cache : n \notin DOMAIN cache' => cache[n] \in deleted']_vars

====
